---- MODULE Spec2Model ----
(***************************************************************************)
(* Model of supervised-oie/src/rnn/seq2seq_model.py: the Seq2seq_OIE       *)
(* orchestrator (constructor, network factory, callbacks, train, dataset   *)
(* loader) and the script's __main__ block.                                *)
(*                                                                         *)
(* Library calls (numpy, keras, seq2seq, pandas) are modelled by what the  *)
(* script observes of them: the constructor/compile requests it sends,     *)
(* the exceptions they raise and the values they return.                   *)
(***************************************************************************)
EXTENDS Integers, Sequences, FiniteSets, TLC

(***************************************************************************)
(* Bounds of the model                                                     *)
(***************************************************************************)
\* largest configured seed tried
MaxSeed == 1
\* number of random draws followed after construction
MaxDraws == 2
\* largest number of draws the library makes while building a network
MaxInitDraws == 1

(***************************************************************************)
(* Values handed to the script                                             *)
(***************************************************************************)
Booleans == {TRUE, FALSE}
InputLengths == {3}
HiddenDims == {4}
OutputLengths == {5}
Depths == {1, 2}
FeatureDims == {2, 3}
EpochCounts == {1}
\* names keras resolves, and one name of each kind it does not
KnownLosses == {"categorical_crossentropy"}
KnownOptimizers == {"adam"}
LossNames == KnownLosses \cup {"no_such_loss"}
OptimizerNames == KnownOptimizers \cup {"no_such_optimizer"}

\* the placeholder for "no network"
NoModel == [cls |-> "None"]

(***************************************************************************)
(* Network factory: Seq2seq_OIE.compile_model                              *)
(***************************************************************************)
\* the keyword arguments compile_model hands to model_fn (lines 106-113)
ModelKwargs(input_length, input_depth, input_dim, hidden_dim, output_length, output_depth, output_dim) ==
    [input_length |-> input_length,
     input_dim |-> input_dim,
     hidden_dim |-> hidden_dim,
     output_length |-> output_length,
     output_dim |-> output_dim,
     depth |-> <<input_depth, output_depth>>]

\* mutation: peek forwarded on the attention branch as well
model_fn_peek_always(attention, peek, args) ==
    [cls |-> IF attention THEN "AttentionSeq2Seq" ELSE "Seq2Seq",
     peek |-> peek, kwargs |-> args]

\* mutation: the branches of the conditional exchanged
model_fn_swapped(attention, peek, args) ==
    IF ~attention
    THEN [cls |-> "AttentionSeq2Seq", kwargs |-> args]
    ELSE [cls |-> "Seq2Seq", peek |-> peek, kwargs |-> args]

\* the lambda of lines 101-104: which class is instantiated, with what
model_fn(attention, peek, args) ==
    IF attention
    THEN [cls |-> "AttentionSeq2Seq", kwargs |-> args]
    ELSE [cls |-> "Seq2Seq", peek |-> peek, kwargs |-> args]

\* model.compile(loss, optimizer): keras raises on a name it cannot resolve
KerasCompile(loss, optimizer) ==
    IF loss \in KnownLosses /\ optimizer \in KnownOptimizers
    THEN "None" ELSE "ValueError"

\* mutation: the compile error swallowed, the uncompiled network returned
compile_model_swallow(input_length, input_depth, input_dim, hidden_dim, output_length, output_depth, output_dim, peek, attention, loss, optimizer, dbg) ==
    LET model == model_fn(attention, peek,
                          ModelKwargs(input_length, input_depth, input_dim,
                                      hidden_dim, output_length, output_depth,
                                      output_dim))
    IN [exc |-> "None", request |-> model, loss |-> loss,
        optimizer |-> optimizer, summary |-> dbg, ret |-> model]

\* compile_model (lines 72-120): outcome of one call.
\*   request : the constructor call made             (lines 101-113)
\*   loss, optimizer : what model.compile was given  (lines 115-116)
\*   exc     : the exception leaving the call, "None" when it returns
\*   summary : whether model.summary() ran           (lines 118-119)
\*   ret     : the value returned, NoModel when it raised
compile_model(input_length, input_depth, input_dim, hidden_dim, output_length, output_depth, output_dim, peek, attention, loss, optimizer, dbg) ==
    LET model == model_fn(attention, peek,
                          ModelKwargs(input_length, input_depth, input_dim,
                                      hidden_dim, output_length, output_depth,
                                      output_dim))
        err == KerasCompile(loss, optimizer)
    IN [exc |-> err,
        request |-> model,
        loss |-> loss,
        optimizer |-> optimizer,
        summary |-> (err = "None" /\ dbg),
        ret |-> IF err = "None" THEN model ELSE NoModel]

\* the argument tuples tried on the factory
FactoryArgs ==
    [input_length : InputLengths, input_depth : Depths, input_dim : FeatureDims,
     hidden_dim : HiddenDims, output_length : OutputLengths,
     output_depth : Depths, output_dim : FeatureDims,
     peek : Booleans, attention : Booleans,
     loss : LossNames, optimizer : OptimizerNames, debug : Booleans]

CallFactory(a) ==
    compile_model(a.input_length, a.input_depth, a.input_dim, a.hidden_dim,
                  a.output_length, a.output_depth, a.output_dim,
                  a.peek, a.attention, a.loss, a.optimizer, a.debug)

(***************************************************************************)
(* Dataset loader: Seq2seq_OIE.load_dataset                                *)
(*                                                                         *)
(* The method only forwards to pd.read_csv and hands back what it returns. *)
(* The source fixes the request; what read_csv makes of a file's content   *)
(* (splitting, quoting, type inference, short or long rows) is pandas'     *)
(* and is left open: on a file that exists the call may return a table or  *)
(* raise a parse error.                                                    *)
(***************************************************************************)
Tab == "\t"
Comma == ","
Delimiters == {Tab, Comma}

\* names = ['sent', 'base-pred', 'surface-pred'] + ['arg0' .. 'arg9']
ColumnNames ==
    <<"sent", "base-pred", "surface-pred">> \o
    <<"arg0", "arg1", "arg2", "arg3", "arg4",
      "arg5", "arg6", "arg7", "arg8", "arg9">>

\* the files a path can name
Paths == {"a.tsv", "b.tsv"}
Files == [exists : Booleans, path : Paths]
AbsentFile == [exists |-> FALSE, path |-> "a.tsv"]

\* the call of lines 161-167
ReadCsvRequest(fn, sep) ==
    [path |-> fn.path, sep |-> sep, header |-> "None",
     names |-> ColumnNames, engine |-> "python"]

\* the ways the call can end: an outcome has a ret field, the table read on
\* that request, only when the call returns
ReadCsvOutcomes(fn, request) ==
    IF ~fn.exists THEN {[exc |-> "IOError"]}
    ELSE {[exc |-> "None", ret |-> [table_of |-> request]],
          [exc |-> "ParserError"]}

\* load_dataset (lines 156-167): the outcomes of one call; nothing is
\* caught and the table is returned as read_csv gave it
load_dataset(fn, sep) == ReadCsvOutcomes(fn, ReadCsvRequest(fn, sep))

(***************************************************************************)
(* numpy's global generator, as far as the script can tell: seeding fixes  *)
(* the state, every draw returns the state and advances it.                *)
(***************************************************************************)
RngStates == 0..7
NumpySeed(seed) == seed % 8
RngStep(state) == (5 * state + 3) % 8
RECURSIVE RngSteps(_, _)
RngSteps(state, n) == IF n = 0 THEN state ELSE RngSteps(RngStep(state), n - 1)

(***************************************************************************)
(* State                                                                   *)
(***************************************************************************)
VARIABLES
    factoryCall,    \* a direct call of compile_model and its outcome
    loadCall,       \* a direct call of load_dataset and its outcome
    hyperparams,    \* the "hyperparams" mapping handed to the constructor
    emb,            \* the embedding table Glove(emb_fn) yields
    debug,          \* whether the root logger is at DEBUG
    initDraws,      \* draws the library makes while building a network
    pc,             \* per run: where the orchestrator object is
    rng,            \* per run: state of numpy's global generator
    seedCalls,      \* per run: calls of np.random.seed so far
    draws,          \* per run: the values drawn after Construct
    model,          \* per run: self.model
    last,           \* per run: the last method call and how it ended
    events,         \* per run: library calls made, in order
    files,          \* per run: the files in the model directory
    mainPc,         \* __main__: position in the script
    mainArgs,       \* __main__: the parsed command line and what it names
    mainLog,        \* __main__: the steps carried out, in order
    mainExc         \* __main__: the exception that ended the script

vars == <<factoryCall, loadCall, hyperparams, emb, debug, initDraws, pc, rng,
          seedCalls, draws, model, last, events, files,
          mainPc, mainArgs, mainLog, mainExc>>

factoryVars == <<factoryCall>>
loadVars == <<loadCall>>
configVars == <<hyperparams, emb, debug, initDraws>>
runVars == <<pc, rng, seedCalls, draws, model, last, events, files>>
objectVars == <<configVars, runVars>>
mainVars == <<mainPc, mainArgs, mainLog, mainExc>>

\* two runs of the program on the same configuration
Runs == {1, 2}

NoCall == [called |-> FALSE]

\* the hyperparameter mappings tried
Hyperparams ==
    [seed : 0..MaxSeed, sep : Delimiters, batch_size : InputLengths,
     maximum_output_length : OutputLengths, hidden_dim : HiddenDims,
     input_depth : Depths, output_depth : Depths,
     peek : Booleans, attention : Booleans, epochs : EpochCounts,
     loss : LossNames, optimizer : OptimizerNames]

FactoryIdle ==
    factoryCall = [called |-> FALSE,
                   args |-> CHOOSE a \in FactoryArgs : TRUE]
LoadIdle ==
    loadCall = [called |-> FALSE, fn |-> AbsentFile, sep |-> Tab]
RunsNew ==
    /\ pc = [r \in Runs |-> "new"]
    /\ seedCalls = [r \in Runs |-> 0]
    /\ draws = [r \in Runs |-> <<>>]
    /\ model = [r \in Runs |-> NoModel]
    /\ last = [r \in Runs |-> NoCall]
    /\ events = [r \in Runs |-> <<>>]
    /\ files = [r \in Runs |-> {}]
ObjectIdle ==
    /\ hyperparams = CHOOSE h \in Hyperparams : TRUE
    /\ emb = [dim |-> CHOOSE d \in FeatureDims : TRUE]
    /\ debug = FALSE
    /\ initDraws = 0
    /\ rng = [r \in Runs |-> r]
    /\ RunsNew
MainIdle ==
    /\ mainPc = "start"
    /\ mainArgs = [usage_ok |-> TRUE, verbose |-> FALSE, sep |-> Tab,
                   train |-> AbsentFile, dev |-> AbsentFile,
                   test |-> AbsentFile]
    /\ mainLog = <<>>
    /\ mainExc = "None"

(***************************************************************************)
(* Direct calls of the network factory                                     *)
(***************************************************************************)
CompileModel ==
    /\ ~factoryCall.called
    /\ factoryCall' = [called |-> TRUE, args |-> factoryCall.args,
                       out |-> CallFactory(factoryCall.args)]
    /\ UNCHANGED <<loadVars, objectVars, mainVars>>

InitFactory ==
    /\ factoryCall \in [called : {FALSE}, args : FactoryArgs]
    /\ LoadIdle /\ ObjectIdle /\ MainIdle
NextFactory == CompileModel
SpecFactory == InitFactory /\ [][NextFactory]_vars

(***************************************************************************)
(* Direct calls of the dataset loader                                      *)
(***************************************************************************)
LoadDataset ==
    /\ ~loadCall.called
    /\ \E out \in load_dataset(loadCall.fn, loadCall.sep) :
          loadCall' = [called |-> TRUE, fn |-> loadCall.fn,
                       sep |-> loadCall.sep, out |-> out]
    /\ UNCHANGED <<factoryVars, objectVars, mainVars>>

InitLoad ==
    /\ loadCall \in [called : {FALSE}, fn : Files, sep : Delimiters]
    /\ FactoryIdle /\ ObjectIdle /\ MainIdle
NextLoad == LoadDataset
SpecLoad == InitLoad /\ [][NextLoad]_vars

(***************************************************************************)
(* The orchestrator object: Seq2seq_OIE                                    *)
(***************************************************************************)
\* mutation: the seed never applied
SeedGenerator_skipped(state, h) == state

\* line 56: np.random.seed(self.args['seed'])
SeedGenerator(state, h) == NumpySeed(h.seed)

\* mutation: the hidden width passed as the output feature width
ConstructModel_hidden(h, e, dbg) ==
    compile_model(h.batch_size, h.input_depth, e.dim, h.hidden_dim,
                  h.maximum_output_length, h.output_depth, h.hidden_dim,
                  h.peek, h.attention, h.loss, h.optimizer, dbg)

\* lines 57-68: the factory call of __init__
ConstructModel(h, e, dbg) ==
    compile_model(h.batch_size, h.input_depth, e.dim, h.hidden_dim,
                  h.maximum_output_length, h.output_depth, e.dim,
                  h.peek, h.attention, h.loss, h.optimizer, dbg)

\* __init__ (lines 33-68) in run r.  The network's constructor runs, and
\* draws, before model.compile can raise.
Construct(r) ==
    /\ pc[r] = "new"
    /\ LET out == ConstructModel(hyperparams, emb, debug)
       IN /\ rng' = [rng EXCEPT
                       ![r] = RngSteps(SeedGenerator(rng[r], hyperparams),
                                       initDraws)]
          /\ seedCalls' = [seedCalls EXCEPT ![r] = @ + 1]
          /\ events' = [events EXCEPT
                          ![r] = @ \o <<[call |-> "Glove"],
                                        [call |-> "np.random.seed",
                                         seed |-> hyperparams.seed],
                                        [call |-> "compile_model",
                                         request |-> out.request,
                                         loss |-> out.loss,
                                         optimizer |-> out.optimizer]>>]
          /\ model' = [model EXCEPT ![r] = out.ret]
          /\ last' = [last EXCEPT
                        ![r] = [called |-> TRUE, op |-> "__init__",
                                exc |-> out.exc]]
          /\ pc' = [pc EXCEPT ![r] = IF out.exc = "None"
                                     THEN "constructed" ELSE "raised"]
    /\ UNCHANGED <<draws, files>>
    /\ UNCHANGED <<factoryVars, loadVars, configVars, mainVars>>

\* a random draw made by whatever runs after the constructor
Draw(r) ==
    /\ pc[r] # "new"
    /\ Len(draws[r]) < MaxDraws
    /\ draws' = [draws EXCEPT ![r] = Append(@, rng[r])]
    /\ rng' = [rng EXCEPT ![r] = RngStep(@)]
    /\ UNCHANGED <<pc, seedCalls, model, last, events, files>>
    /\ UNCHANGED <<factoryVars, loadVars, configVars, mainVars>>

\* how a call of train is written
CallStyles == {"bound", "unbound"}

\* train (lines 140-154).  The def has no self parameter: s2s.train(a, b)
\* passes three arguments to a function of two, and Seq2seq_OIE.train(a, b)
\* stops at the first use of the undefined name self (line 145).  Neither
\* gets as far as a load_dataset or fit call.
train(style) ==
    [exc |-> IF style = "bound" THEN "TypeError" ELSE "NameError",
     calls |-> <<>>,
     written |-> {}]

Train(r) ==
    /\ pc[r] = "constructed"
    /\ \E style \in CallStyles :
         LET out == train(style)
         IN /\ last' = [last EXCEPT
                          ![r] = [called |-> TRUE, op |-> "train",
                                  style |-> style, exc |-> out.exc]]
            /\ events' = [events EXCEPT ![r] = @ \o out.calls]
            /\ files' = [files EXCEPT ![r] = @ \cup out.written]
    /\ UNCHANGED <<pc, rng, seedCalls, draws, model>>
    /\ UNCHANGED <<factoryVars, loadVars, configVars, mainVars>>

\* get_callbacks (lines 122-137).  The LambdaCallback is built (line 130);
\* the argument os.path.join(...) of ModelCheckpoint then fails on the name
\* os, which the module never imports, so no ModelCheckpoint is requested
\* and nothing is returned.
get_callbacks ==
    [exc |-> "NameError",
     built |-> <<"LambdaCallback">>]

GetCallbacks(r) ==
    /\ pc[r] = "constructed"
    /\ LET out == get_callbacks
       IN last' = [last EXCEPT
                     ![r] = [called |-> TRUE, op |-> "get_callbacks",
                             exc |-> out.exc, built |-> out.built]]
    /\ UNCHANGED <<pc, rng, seedCalls, draws, model, events, files>>
    /\ UNCHANGED <<factoryVars, loadVars, configVars, mainVars>>

Init ==
    /\ hyperparams \in Hyperparams
    /\ emb \in [dim : FeatureDims]
    /\ debug \in Booleans
    /\ initDraws \in 0..MaxInitDraws
    /\ rng \in [Runs -> RngStates]
    /\ RunsNew
    /\ FactoryIdle /\ LoadIdle /\ MainIdle
Next ==
    \E r \in Runs :
        \/ Construct(r)
        \/ Draw(r)
        \/ Train(r)
        \/ GetCallbacks(r)
Spec == Init /\ [][Next]_vars

(***************************************************************************)
(* The script: the __main__ block (lines 179-197)                          *)
(***************************************************************************)
\* lines 181-191: docopt parses the command line, and exits the script on
\* one that does not match the usage pattern; otherwise
\* logging.basicConfig puts the root logger at DEBUG under -v, at INFO
\* without it.
MainParseArgs ==
    /\ mainPc = "start"
    /\ mainLog' = Append(mainLog, "docopt")
    /\ IF mainArgs.usage_ok
       THEN /\ mainPc' = "parsed"
            /\ debug' = mainArgs.verbose
            /\ UNCHANGED mainExc
       ELSE /\ mainPc' = "exited"
            /\ mainExc' = "SystemExit"
            /\ UNCHANGED debug
    /\ UNCHANGED mainArgs
    /\ UNCHANGED <<factoryVars, loadVars, hyperparams, emb, initDraws, runVars>>

\* lines 194-195: the hyperparameter file is read
MainLoadHyperparams ==
    /\ mainPc = "parsed"
    /\ mainPc' = "configured"
    /\ mainLog' = Append(mainLog, "json.load")
    /\ UNCHANGED <<mainArgs, mainExc>>
    /\ UNCHANGED <<factoryVars, loadVars, objectVars>>

\* line 196, the last statement of the script: the train file is loaded.
\* The constructor call of line 197 is commented out and train is never
\* called.
MainLoadDataset ==
    /\ mainPc = "configured"
    /\ \E out \in load_dataset(mainArgs.train, mainArgs.sep) :
          /\ mainExc' = out.exc
          /\ mainPc' = IF out.exc = "None" THEN "done" ELSE "crashed"
    /\ mainLog' = Append(mainLog, "load_dataset")
    /\ UNCHANGED mainArgs
    /\ UNCHANGED <<factoryVars, loadVars, objectVars>>

InitMain ==
    /\ mainPc = "start"
    /\ mainArgs \in [usage_ok : Booleans, verbose : Booleans,
                      sep : Delimiters,
                      train : Files, dev : Files, test : Files]
    /\ mainLog = <<>>
    /\ mainExc = "None"
    /\ FactoryIdle /\ LoadIdle /\ ObjectIdle
NextMain ==
    \/ MainParseArgs
    \/ MainLoadHyperparams
    \/ MainLoadDataset
SpecMain == InitMain /\ [][NextMain]_vars

(***************************************************************************)
(* Properties                                                              *)
(***************************************************************************)
Min(a, b) == IF a < b THEN a ELSE b
CallsOf(ev, name) == {k \in 1..Len(ev) : ev[k].call = name}

\* C1: when attention is set, the factory ignores peek: the call with the
\* peek flag flipped and every other argument the same requests the same
\* class with the same constructor arguments and compiles it with the same
\* loss and optimizer.
C1_PeekIgnoredUnderAttention ==
    (factoryCall.called /\ factoryCall.args.attention) =>
        LET flipped == CallFactory([factoryCall.args EXCEPT !.peek = ~@])
        IN /\ factoryCall.out.request = flipped.request
           /\ factoryCall.out.loss = flipped.loss
           /\ factoryCall.out.optimizer = flipped.optimizer
           /\ factoryCall.out.exc = flipped.exc
           /\ factoryCall.out.ret = flipped.ret

C1_Witness ==
    /\ factoryCall.called
    /\ factoryCall.args.attention
    /\ factoryCall.args.peek
    /\ factoryCall.out.exc = "None"
    /\ factoryCall.out.request.cls = "AttentionSeq2Seq"

\* C7: without attention the factory instantiates Seq2Seq and hands it the
\* caller's peek; with attention it instantiates AttentionSeq2Seq.  Either
\* way the constructor gets input_length, input_dim, hidden_dim,
\* output_length, output_dim and depth = (input_depth, output_depth) as
\* given.
C7_FactoryBranches ==
    factoryCall.called =>
        LET a == factoryCall.args
            q == factoryCall.out.request
        IN /\ ~a.attention => (q.cls = "Seq2Seq" /\ q.peek = a.peek)
           /\ a.attention => q.cls = "AttentionSeq2Seq"
           /\ q.kwargs.input_length = a.input_length
           /\ q.kwargs.input_dim = a.input_dim
           /\ q.kwargs.hidden_dim = a.hidden_dim
           /\ q.kwargs.output_length = a.output_length
           /\ q.kwargs.output_dim = a.output_dim
           /\ q.kwargs.depth = <<a.input_depth, a.output_depth>>
           /\ DOMAIN q.kwargs = {"input_length", "input_dim", "hidden_dim",
                                 "output_length", "output_dim", "depth"}

C7_Witness ==
    /\ factoryCall.called
    /\ ~factoryCall.args.attention
    /\ factoryCall.args.peek
    /\ factoryCall.args.input_dim # factoryCall.args.output_dim
    /\ factoryCall.args.input_depth # factoryCall.args.output_depth
    /\ factoryCall.out.request.cls = "Seq2Seq"

\* C8: a loss or optimizer name keras does not know makes the factory
\* raise; the constructor that called it neither catches the error nor
\* calls the factory again, and no network is kept.
C8_UnknownNameIsFatal ==
    \A r \in Runs :
        (/\ pc[r] # "new"
         /\ \/ hyperparams.loss \notin KnownLosses
            \/ hyperparams.optimizer \notin KnownOptimizers) =>
            /\ pc[r] = "raised"
            /\ last[r].op = "__init__"
            /\ last[r].exc = "ValueError"
            /\ model[r] = NoModel
            /\ Cardinality(CallsOf(events[r], "compile_model")) = 1

C8_Witness ==
    \E r \in Runs :
        /\ pc[r] = "raised"
        /\ hyperparams.loss \notin KnownLosses
        /\ hyperparams.optimizer \in KnownOptimizers

\* C9: the constructor seeds the generator once, with the configured seed;
\* two runs on the same configuration then make the same draws and, after
\* equally many draws, have the generator in the same state.
C9_SeedDeterminism ==
    /\ \A r \in Runs :
         pc[r] # "new" =>
            /\ seedCalls[r] = 1
            /\ \A k \in CallsOf(events[r], "np.random.seed") :
                  events[r][k].seed = hyperparams.seed
            /\ Cardinality(CallsOf(events[r], "np.random.seed")) = 1
    /\ (pc[1] # "new" /\ pc[2] # "new") =>
          /\ \A i \in 1..Min(Len(draws[1]), Len(draws[2])) :
                draws[1][i] = draws[2][i]
          /\ Len(draws[1]) = Len(draws[2]) => rng[1] = rng[2]

C9_Witness ==
    /\ pc[1] # "new" /\ pc[2] # "new"
    /\ Len(draws[1]) >= 2 /\ Len(draws[2]) >= 2
    /\ draws[1][1] # draws[1][2]

\* C10: the input and output feature widths the constructor hands to the
\* factory both equal the width of the embedding table, and the constructor
\* always gets as far as the factory call, whatever that width is.
C10_DimsFromEmbedding ==
    \A r \in Runs :
        pc[r] # "new" =>
            /\ CallsOf(events[r], "compile_model") # {}
            /\ \A k \in CallsOf(events[r], "compile_model") :
                  /\ events[r][k].request.kwargs.input_dim = emb.dim
                  /\ events[r][k].request.kwargs.output_dim = emb.dim
            /\ model[r] # NoModel =>
                  /\ model[r].kwargs.input_dim = emb.dim
                  /\ model[r].kwargs.output_dim = emb.dim

C10_Witness ==
    \E r \in Runs :
        /\ pc[r] = "constructed"
        /\ model[r] # NoModel
        /\ emb.dim # hyperparams.hidden_dim
        /\ emb.dim = 3

\* C2 as stated: a call of train on a constructed object loads the train
\* and the dev dataset and then calls fit exactly once, with the configured
\* number of epochs and the two callbacks.
C2_TrainLoadsThenFits ==
    \A r \in Runs :
        (last[r].called /\ last[r].op = "train") =>
            LET ev == events[r]
                loads == CallsOf(ev, "load_dataset")
                fits == CallsOf(ev, "fit")
            IN /\ Cardinality(loads) = 2
               /\ Cardinality(fits) = 1
               /\ \A i \in loads, k \in fits : i < k
               /\ \A k \in fits : /\ ev[k].epochs = hyperparams.epochs
                                  /\ Len(ev[k].callbacks) = 2

\* C3 as stated: with hidden_dim 4, depths 1 and 1, maximum_output_length
\* 5, no peek, no attention, 1 epoch and a 2-dimensional embedding table,
\* Construct followed by Train ends without error and leaves exactly one
\* checkpoint file in the save directory.
C3_EndToEndOneCheckpoint ==
    \A r \in Runs :
        (/\ hyperparams.hidden_dim = 4
         /\ hyperparams.input_depth = 1 /\ hyperparams.output_depth = 1
         /\ hyperparams.maximum_output_length = 5
         /\ ~hyperparams.peek /\ ~hyperparams.attention
         /\ hyperparams.epochs = 1
         /\ hyperparams.loss \in KnownLosses
         /\ hyperparams.optimizer \in KnownOptimizers
         /\ emb.dim = 2
         /\ last[r].called /\ last[r].op = "train") =>
            /\ last[r].exc = "None"
            /\ Cardinality(files[r]) = 1

\* C5 as stated: get_callbacks yields a checkpoint callback (not best-only,
\* writing weights.hdf5 in the model directory at the end of every epoch)
\* next to the sampling callback.
C5_CheckpointCallbackBuilt ==
    \A r \in Runs :
        (last[r].called /\ last[r].op = "get_callbacks") =>
            /\ last[r].exc = "None"
            /\ last[r].built = <<"LambdaCallback", "ModelCheckpoint">>

\* the command line matches the usage pattern and names a train file that
\* exists and that read_csv accepts
ValidMainInputs ==
    /\ mainArgs.usage_ok
    /\ mainArgs.train.exists
    /\ mainExc = "None"

\* C4 as stated: the script loads the configuration, builds and compiles
\* the network, loads the datasets and runs fit, in this order; no dataset
\* is loaded before the network is built, and a run on valid inputs reaches
\* fit.
C4_MainReachesTraining ==
    /\ \A k \in 1..Len(mainLog) :
          mainLog[k] \in {"load_dataset", "fit"} =>
             \E i \in 1..(k - 1) : mainLog[i] = "compile_model"
    /\ (mainPc \in {"done", "crashed"} /\ ValidMainInputs) =>
          \E k \in 1..Len(mainLog) : mainLog[k] = "fit"

====
